---- MODULE Spec2Model ----
(***************************************************************************)
(* A model of QuoteDriftTracker: the sampling engine of quote_tracker.py   *)
(* and demo_mode.py (one asyncio event loop: W worker tasks, a statistics  *)
(* task, a front-running task and the run coroutine) and the web layer of  *)
(* web_app.py (Flask handler threads plus one tracker thread per start).   *)
(*                                                                         *)
(* Spec     the command-line run (main.py): QuoteTracker.run or            *)
(*          DemoQuoteTracker.run_demo.  A step is what one task does       *)
(*          between two awaits: asyncio runs it without interleaving.      *)
(* FairSpec Spec with the event loop's fairness to the worker tasks.       *)
(* WebSpec  the web interface: /api/start, /api/stop, /api/data and the    *)
(*          tracker threads, a step being one statement of one thread.    *)
(* FnSpec   the functions of data_analyzer.py, export_to_csv and the       *)
(*          timing of get_quote, applied to bounded lists of samples.      *)
(* WebFairSpec  WebSpec with every tracker thread and its tasks scheduled.  *)
(* ScanSpec the consumers of consecutive pairs (the simulators,            *)
(*          calculate_mev_profitability, the drift loops of the web        *)
(*          layer), applied to bounded lists of samples.                   *)
(* PoolSpec Config(...) and one pool of workers under a clock of whole     *)
(*          seconds: the sleeps of the worker loop and of get_quote, the   *)
(*          order of the log and the request counters.                     *)
(***************************************************************************)
EXTENDS Integers, Sequences, FiniteSets, TLC

(***************************************************************************)
(* Bounds of the model.                                                    *)
(***************************************************************************)
\* The number of fetches a command-line run issues before the model stops
\* issuing more (the program has no such limit).
MaxFetch == 3
\* The number of /api/start requests the web layer serves, and of fetches
\* its worker wrappers issue.
MaxStarts == 2
MaxWebFetch == 3
\* web_app.py keeps at most 1000 samples and cuts the list to its last 500;
\* /api/data shows the last 50.  The model scales the three numbers down.
RetentionCap == 1      \* scaled from 1000 (web_app.py:186/242)
RetentionKeep == 1
RecentWindow == 1

\* The worker tasks of a command-line run (config.concurrent_requests = 2).
Workers == {0, 1}
Starts == 1 .. MaxStarts
PeriodicTasks == {"stats", "frontrun"}

\* Python's None, for QuoteData.error (models.py: error: Optional[str] = None).
PyNone == "<None>"

VARIABLES
    mode,           \* "live" (QuoteTracker) or "demo" (DemoQuoteTracker)
    running,        \* self.running
    rpc,            \* where the run coroutine is
    wpc,            \* where each worker task is
    tpc,            \* where each periodic task is
    quotes,         \* self.quotes
    nfetch,         \* fetches issued so far
    analysisCount,  \* calls of analyzer.analyze_quotes by the final analysis
    analysisInput,  \* the list the final analysis was given
    exportCalls,    \* calls of export_to_csv
    exportRows,     \* the samples export_to_csv writes
    session,        \* self.session of QuoteTracker: "none", "open" or "closed"
    \* web_app.py
    tracker_instance,  \* the global: 0 is None, k the tracker the k-th start made
    tracker_running,   \* the global flag
    inst_running,      \* tracker.running of each tracker made by a start
    latest_quotes,     \* the global list
    nstarts,           \* /api/start requests served
    web_rpc,           \* where the run coroutine of each tracker thread is
    web_wpc,           \* where the worker wrapper of each tracker thread is
    web_tmp,           \* latest_quotes[-500:] evaluated, not yet assigned
    web_nfetch,        \* fetches issued by the wrappers so far
    elapsed,           \* the threads whose config.duration has gone by
    stop_seen,         \* the threads that were running when /api/stop came
    rd_pc,             \* where the /api/data handler is
    rd_len,            \* the len(latest_quotes) it tested
    rd_alias,          \* whether its recent_quotes is the list latest_quotes names
    rd_recent,         \* its recent_quotes, when it is a list of its own
    rd_formatted,      \* its formatted_quotes, as the samples formatted
    \* data_analyzer.py, export_to_csv, the timing of get_quote
    fn_quotes,         \* the list of samples a function is given
    fn_op,             \* the function applied to it, "none" before
    fn_out,            \* what the function returned
    \* one pool of workers under a clock: config.py and the worker loops
    pool_cfg,          \* the arguments Config(...) is called with
    pool_pc,           \* "new", "ValueError", "configured", "running", "stopped"
    p_now,             \* time.time(), in whole seconds
    p_wpc,             \* where each worker of the pool is
    p_until,           \* when the asyncio.sleep a worker is in is over
    p_dur,             \* the argument of the loop's sleep a worker took last
    p_call,            \* request_time of the get_quote in progress, and when
                       \* its request was issued
    p_log,             \* self.quotes, with the time fields of the samples
    p_nfetch,          \* fetches issued so far
    p_wrapper,         \* whether the workers are the wrappers of web_app.py
    p_requests         \* total_requests, successful_requests, failed_requests

cliVars == <<mode, running, rpc, wpc, tpc, quotes, nfetch,
             analysisCount, analysisInput, exportCalls, exportRows, session>>

webVars == <<tracker_instance, tracker_running, inst_running, latest_quotes,
             nstarts, web_rpc, web_wpc, web_tmp, web_nfetch, elapsed, stop_seen>>

rdVars == <<rd_pc, rd_len, rd_alias, rd_recent, rd_formatted>>

fnVars == <<fn_quotes, fn_op, fn_out>>

poolVars == <<pool_cfg, pool_pc, p_now, p_wpc, p_until, p_dur, p_call, p_log, p_nfetch,
              p_wrapper, p_requests>>

vars == <<cliVars, webVars, rdVars, fnVars, poolVars>>

(***************************************************************************)
(* Samples: models.py, QuoteData.  worker names the task that made the     *)
(* sample; it is not a field of the dataclass.                             *)
(***************************************************************************)
QuoteData(w, output_amount, success, error) ==
    [worker |-> w, output_amount |-> output_amount,
     success |-> success, error |-> error]

\* What the venue can answer to one request of the live tracker: status 200
\* with or without an outAmount, a non-200 status, or an exception of the
\* HTTP client (a timeout, a transport error, a body that is not JSON).
OutAmounts == {0, 1000000}
LiveResponses ==
    {[kind |-> "http", status |-> 200, outAmount |-> a, text |-> "body"] : a \in OutAmounts}
    \cup {[kind |-> "http", status |-> s, outAmount |-> 0, text |-> "body"] : s \in {429, 500}}
    \cup {[kind |-> "exc", status |-> 0, outAmount |-> 0, text |-> m] : m \in {""}}

\* What one simulated request of the demo tracker can give: a drifted amount
\* around base_output, or the 2% simulated failure.
DemoResponses ==
    {[kind |-> "sim", status |-> 200, outAmount |-> 240000000, text |-> ""],
     [kind |-> "sim", status |-> 0, outAmount |-> 0, text |-> "Simulated network error"]}

Responses(m) == IF m = "live" THEN LiveResponses ELSE DemoResponses

\* f"HTTP {response.status}: {error_text}"
HttpError(status) == IF status = 429 THEN "HTTP 429: body" ELSE "HTTP 500: body"

\* QuoteTracker.get_quote, from the response to the sample it returns.
\* get_quote with error=str(e) or None in its except clause: an exception
\* whose message is empty leaves the error absent.
get_quote_error_or_none(resp, w) ==
    IF resp.kind = "exc"
    THEN QuoteData(w, 0, FALSE, IF resp.text = "" THEN PyNone ELSE resp.text)
    ELSE IF resp.status = 200 THEN QuoteData(w, resp.outAmount, TRUE, PyNone)
         ELSE QuoteData(w, 0, FALSE, HttpError(resp.status))

get_quote(resp, w) ==
    IF resp.kind = "exc"
    THEN QuoteData(w, 0, FALSE, resp.text)
    ELSE IF resp.status = 200
         THEN QuoteData(w, resp.outAmount, TRUE, PyNone)
         ELSE QuoteData(w, 0, FALSE, HttpError(resp.status))

\* DemoQuoteTracker.get_demo_quote.
get_demo_quote(resp, w) ==
    IF resp.status = 200
    THEN QuoteData(w, resp.outAmount, TRUE, PyNone)
    ELSE QuoteData(w, 0, FALSE, resp.text)

MakeQuote(m, resp, w) ==
    IF m = "live" THEN get_quote(resp, w) ELSE get_demo_quote(resp, w)

\* The response classes after which get_quote sleeps before it builds the
\* sample (quote_tracker.py:99-100).
\* A get_quote without the sleep of its 429 branch.
RateLimited_never(m, resp) == FALSE

RateLimited(m, resp) == m = "live" /\ resp.kind = "http" /\ resp.status = 429

(***************************************************************************)
(* Tasks.                                                                  *)
(***************************************************************************)
TaskEnded == {"done", "failed", "cancelled"}

\* task.cancel(): a task that has ended is left alone, any other gets a
\* CancelledError at the await it is suspended in.
CancelTask(pc) == IF pc \in TaskEnded THEN pc ELSE "cancelling"

AllTasksEnded ==
    /\ \A w \in Workers : wpc[w] \in TaskEnded
    /\ \A t \in PeriodicTasks : tpc[t] \in TaskEnded

Successful(log) == SelectSeq(log, LAMBDA q : q.success)

CliInit ==
    /\ mode \in {"live", "demo"}
    /\ running = FALSE
    /\ rpc = "idle"
    /\ wpc = [w \in Workers |-> "none"]
    /\ tpc = [t \in PeriodicTasks |-> "none"]
    /\ quotes = <<>>
    /\ nfetch = 0
    /\ analysisCount = 0
    /\ analysisInput = <<>>
    /\ exportCalls = 0
    /\ exportRows = <<>>
    /\ session = "none"

\* web_app.py:18-23, before any request.
WebInit ==
    /\ tracker_instance = 0
    /\ tracker_running = FALSE
    /\ inst_running = [k \in Starts |-> FALSE]
    /\ latest_quotes = <<>>
    /\ nstarts = 0
    /\ web_rpc = [k \in Starts |-> "none"]
    /\ web_wpc = [k \in Starts |-> "none"]
    /\ web_tmp = [k \in Starts |-> <<>>]
    /\ web_nfetch = 0
    /\ elapsed = {}
    /\ stop_seen = {}
    /\ rd_pc = "idle"
    /\ rd_len = 0
    /\ rd_alias = FALSE
    /\ rd_recent = <<>>
    /\ rd_formatted = <<>>

\* No function of the analysis side has been applied.
FnIdle ==
    /\ fn_quotes = <<>>
    /\ fn_op = "none"
    /\ fn_out = <<>>

\* No get_quote is in progress.
NoCall == [request_time |-> 0, issued_at |-> 0, response_time |-> 0]

\* No Config has been built and no pool started: the clock, the workers
\* and the log of the timed pool at rest.
PoolAtRest ==
    /\ pool_pc = "new"
    /\ p_now = 0
    /\ p_wpc = [w \in Workers |-> "none"]
    /\ p_until = [w \in Workers |-> 0]
    /\ p_dur = [w \in Workers |-> [num |-> 0, den |-> 1]]
    /\ p_call = [w \in Workers |-> NoCall]
    /\ p_log = <<>>
    /\ p_nfetch = 0
    /\ p_requests = [total_requests |-> 0, successful_requests |-> 0,
                     failed_requests |-> 0]

\* The defaults of the dataclass (config.py:13-26), as far as they are
\* validated.
PoolIdle ==
    /\ pool_cfg = [frequency |-> [num |-> 5, den |-> 1], duration |-> 60,
                   concurrent_requests |-> 10, amount |-> 1000000,
                   slippage_bps |-> 50, latency_injection |-> [num |-> 0, den |-> 1]]
    /\ p_wrapper = FALSE
    /\ PoolAtRest

Init == CliInit /\ WebInit /\ FnIdle /\ PoolIdle

(***************************************************************************)
(* QuoteTracker.run / DemoQuoteTracker.run_demo                            *)
(***************************************************************************)
\* QuoteTracker.initialize opens the HTTP session; DemoQuoteTracker has
\* none.
initialize == IF mode = "live" THEN "open" ELSE "none"

\* QuoteTracker.cleanup: if self.session: await self.session.close()
cleanup(sess) == IF sess = "open" THEN "closed" ELSE sess

\* (initialize,) self.running = True, the tasks are created, the run awaits
\* asyncio.sleep(self.config.duration).
run_start ==
    /\ rpc = "idle"
    /\ session' = initialize
    /\ running' = TRUE
    /\ wpc' = [w \in Workers |-> "start"]
    /\ tpc' = [t \in PeriodicTasks |-> "start"]
    /\ rpc' = "sleep"
    /\ UNCHANGED <<mode, quotes, nfetch, analysisCount, analysisInput,
                   exportCalls, exportRows>>
    /\ UNCHANGED <<webVars, rdVars, fnVars, poolVars>>

\* QuoteTracker.stop
stop == FALSE

\* The duration has elapsed: stop(), cancel every task, await the gather.
run_stop ==
    /\ rpc = "sleep"
    /\ running' = stop
    /\ wpc' = [w \in Workers |-> CancelTask(wpc[w])]
    /\ tpc' = [t \in PeriodicTasks |-> CancelTask(tpc[t])]
    /\ rpc' = "gather"
    /\ UNCHANGED <<mode, quotes, nfetch, analysisCount, analysisInput,
                   exportCalls, exportRows, session>>
    /\ UNCHANGED <<webVars, rdVars, fnVars, poolVars>>

\* What asyncio.gather(..., return_exceptions=True) waits for.
\* A run that does not await its cancelled tasks.
GatherSkipped == TRUE

\* A gather without return_exceptions=True: it returns only when no task
\* raised.
GatherAllSucceeded ==
    /\ AllTasksEnded
    /\ \A w \in Workers : wpc[w] # "failed"
    /\ \A t \in PeriodicTasks : tpc[t] # "failed"

GatherComplete == AllTasksEnded

\* How the run ends when the export raised and was swallowed.
RunOutcome_swallowed(export_raised) == "done"

\* How run / run_demo ends: nothing between export_to_csv and the caller
\* of run catches an exception of the export (open or the writer raising
\* OSError), so it leaves finalize_analysis and run; main reports it.
RunOutcome(export_raised) == IF export_raised THEN "raised" ELSE "done"

\* finalize_analysis / finalize_demo_analysis, then export_to_csv, then the
\* cleanup of the finally clause.  The export opens its file only when
\* there is a successful sample; when it raises, its file is not written.
finalize_analysis ==
    /\ rpc = "gather"
    /\ GatherComplete
    /\ analysisCount' = analysisCount + 1
    /\ analysisInput' = quotes
    /\ exportCalls' = exportCalls + 1
    /\ \E export_raised \in {FALSE, Successful(quotes) # <<>>} :
         /\ exportRows' = IF export_raised THEN <<>> ELSE Successful(quotes)
         /\ rpc' = RunOutcome(export_raised)
    /\ session' = cleanup(session)
    /\ UNCHANGED <<mode, running, wpc, tpc, quotes, nfetch>>
    /\ UNCHANGED <<webVars, rdVars, fnVars, poolVars>>

(***************************************************************************)
(* main.py: KeyboardInterrupt while the run awaits its duration.  The main *)
(* task unwinds through run's finally clause (cleanup awaits the session's *)
(* close, so the other tasks still run); asyncio.run then cancels every    *)
(* task that is left and waits for them.  No final analysis is run.        *)
(***************************************************************************)
interrupt ==
    /\ rpc = "sleep"
    /\ rpc' = "unwind"
    /\ UNCHANGED <<mode, running, wpc, tpc, quotes, nfetch,
                   analysisCount, analysisInput, exportCalls, exportRows, session>>
    /\ UNCHANGED <<webVars, rdVars, fnVars, poolVars>>

interrupt_teardown ==
    /\ rpc = "unwind"
    /\ wpc' = [w \in Workers |-> CancelTask(wpc[w])]
    /\ tpc' = [t \in PeriodicTasks |-> CancelTask(tpc[t])]
    /\ rpc' = "teardown"
    /\ session' = cleanup(session)
    /\ UNCHANGED <<mode, running, quotes, nfetch,
                   analysisCount, analysisInput, exportCalls, exportRows>>
    /\ UNCHANGED <<webVars, rdVars, fnVars, poolVars>>

interrupt_exit ==
    /\ rpc = "teardown"
    /\ AllTasksEnded
    /\ rpc' = "aborted"
    /\ UNCHANGED <<mode, running, wpc, tpc, quotes, nfetch,
                   analysisCount, analysisInput, exportCalls, exportRows, session>>
    /\ UNCHANGED <<webVars, rdVars, fnVars, poolVars>>

(***************************************************************************)
(* QuoteTracker.quote_worker / DemoQuoteTracker.demo_worker                *)
(***************************************************************************)
\* The loop's head, reached when the task first runs and after each sleep:
\* while self.running, call get_quote, which awaits the response.
worker_loop(w) ==
    /\ wpc[w] \in {"start", "interval", "backoff"}
    /\ IF running
       THEN /\ nfetch < MaxFetch
            /\ nfetch' = nfetch + 1
            /\ wpc' = [wpc EXCEPT ![w] = "fetch"]
       ELSE /\ wpc' = [wpc EXCEPT ![w] = "done"]
            /\ UNCHANGED nfetch
    /\ UNCHANGED <<mode, running, rpc, tpc, quotes,
                   analysisCount, analysisInput, exportCalls, exportRows, session>>
    /\ UNCHANGED <<webVars, rdVars, fnVars, poolVars>>

\* Where the worker goes once get_quote has returned `quote`: the append,
\* the print, then the interval sleep; an exception raised by the rest of
\* the iteration is caught by `except Exception` and followed by
\* asyncio.sleep(1).
\* A worker whose loop ends on a failed sample.
AfterQuote_stop_on_failure(w, quote, raised) ==
    /\ quotes' = Append(quotes, quote)
    /\ wpc' = [wpc EXCEPT ![w] = IF ~quote.success THEN "failed"
                                 ELSE IF raised THEN "backoff" ELSE "interval"]

\* A worker without the try/except of its loop body: the exception ends
\* the task.
AfterQuote_uncaught(w, quote, raised) ==
    /\ quotes' = Append(quotes, quote)
    /\ wpc' = [wpc EXCEPT ![w] = IF raised THEN "failed" ELSE "interval"]

AfterQuote(w, quote, raised) ==
    /\ quotes' = Append(quotes, quote)
    /\ wpc' = [wpc EXCEPT ![w] = IF raised THEN "backoff" ELSE "interval"]

\* The response of the fetch in flight arrives.
fetch_return(w) ==
    /\ wpc[w] = "fetch"
    /\ \E resp \in Responses(mode) :
         IF RateLimited(mode, resp)
         THEN /\ wpc' = [wpc EXCEPT ![w] = "cooldown"]
              /\ UNCHANGED quotes
         ELSE \E raised \in BOOLEAN :
                AfterQuote(w, MakeQuote(mode, resp, w), raised)
    /\ UNCHANGED <<mode, running, rpc, tpc, nfetch,
                   analysisCount, analysisInput, exportCalls, exportRows, session>>
    /\ UNCHANGED <<webVars, rdVars, fnVars, poolVars>>

\* The asyncio.sleep(2) after a 429 is over: get_quote builds the failed
\* sample and returns it.
cooldown_done(w) ==
    /\ wpc[w] = "cooldown"
    /\ \E raised \in BOOLEAN :
         AfterQuote(w, get_quote([kind |-> "http", status |-> 429, outAmount |-> 0,
                                  text |-> "body"], w), raised)
    /\ UNCHANGED <<mode, running, rpc, tpc, nfetch,
                   analysisCount, analysisInput, exportCalls, exportRows, session>>
    /\ UNCHANGED <<webVars, rdVars, fnVars, poolVars>>

\* The cancelled tasks end at the await each was suspended in:
\* CancelledError is not an Exception, so no handler of a task catches it.
\* They are all made ready by the same cancel loop and run before anything
\* else does.
Deliver(pc) == IF pc = "cancelling" THEN "cancelled" ELSE pc

tasks_cancelled ==
    /\ \/ \E w \in Workers : wpc[w] = "cancelling"
       \/ \E t \in PeriodicTasks : tpc[t] = "cancelling"
    /\ wpc' = [w \in Workers |-> Deliver(wpc[w])]
    /\ tpc' = [t \in PeriodicTasks |-> Deliver(tpc[t])]
    /\ UNCHANGED <<mode, running, rpc, quotes, nfetch,
                   analysisCount, analysisInput, exportCalls, exportRows, session>>
    /\ UNCHANGED <<webVars, rdVars, fnVars, poolVars>>

(***************************************************************************)
(* statistics_reporter and front_running_simulator (and their demo twins): *)
(* while self.running: await asyncio.sleep(n); report.  The report reads   *)
(* self.quotes between two awaits.                                         *)
(***************************************************************************)
periodic_loop(t) ==
    /\ tpc[t] = "start"
    /\ tpc' = [tpc EXCEPT ![t] = IF running THEN "sleep" ELSE "done"]
    /\ UNCHANGED <<mode, running, rpc, wpc, quotes, nfetch,
                   analysisCount, analysisInput, exportCalls, exportRows, session>>
    /\ UNCHANGED <<webVars, rdVars, fnVars, poolVars>>

\* A report that drops the oldest sample of the log it has read.
periodic_wake_consuming(t) ==
    /\ tpc[t] = "sleep"
    /\ tpc' = [tpc EXCEPT ![t] = IF running THEN "sleep" ELSE "done"]
    /\ quotes' = IF quotes = <<>> THEN quotes ELSE Tail(quotes)
    /\ UNCHANGED <<mode, running, rpc, wpc, nfetch,
                   analysisCount, analysisInput, exportCalls, exportRows, session>>
    /\ UNCHANGED <<webVars, rdVars, fnVars, poolVars>>

\* The sleep is over: the report runs (an exception it raises ends the
\* task, these loops have no handler), then the loop's condition is read.
periodic_wake(t) ==
    /\ tpc[t] = "sleep"
    /\ \E raised \in BOOLEAN :
         tpc' = [tpc EXCEPT ![t] = IF raised THEN "failed"
                                   ELSE IF running THEN "sleep" ELSE "done"]
    /\ UNCHANGED <<mode, running, rpc, wpc, quotes, nfetch,
                   analysisCount, analysisInput, exportCalls, exportRows, session>>
    /\ UNCHANGED <<webVars, rdVars, fnVars, poolVars>>

(***************************************************************************)
(* web_app.py.  Every /api request is served on a thread of its own and    *)
(* every /api/start makes one more tracker thread with an event loop of    *)
(* its own (run_tracker_thread), so here a step is one statement of one    *)
(* thread; the tasks of one event loop still run one at a time.  One       *)
(* worker wrapper per tracker thread is modelled (concurrent_requests = 1) *)
(* and the stats_reporter task, which only reads the list, is left out.    *)
(***************************************************************************)
\* The worker field of the samples of tracker thread k.
WebWorker(k) == 10 * k

\* Python's s[-n:] for n > 0.
LastN(s, n) == IF Len(s) <= n THEN s ELSE SubSeq(s, Len(s) - n + 1, Len(s))

\* The tasks of thread k's event loop are all suspended at an await.
AtAwait(k) == web_wpc[k] \notin {"appended", "store"}

\* The condition both loops test: tracker_instance.running and tracker_running.
WebRunning == tracker_running /\ inst_running[tracker_instance]

\* The periodic tasks run_demo_tracker / run_live_tracker create next to
\* their worker wrappers: stats_task only.
WebPeriodicTasks == {"stats"}

\* POST /api/start (start_tracker): a new tracker becomes the global
\* instance, the list is cleared, the flag is set, a thread is started.
start_tracker ==
    /\ nstarts < MaxStarts
    /\ nstarts' = nstarts + 1
    /\ tracker_instance' = nstarts + 1
    /\ latest_quotes' = <<>>
    /\ tracker_running' = TRUE
    /\ web_rpc' = [web_rpc EXCEPT ![nstarts + 1] = "spawned"]
    /\ UNCHANGED <<inst_running, web_wpc, web_tmp, web_nfetch, elapsed, stop_seen>>
    /\ UNCHANGED <<cliVars, rdVars, fnVars, poolVars>>

\* POST /api/stop (stop_tracker).
stop_tracker ==
    /\ tracker_instance # 0
    /\ tracker_running' = FALSE
    /\ inst_running' = [inst_running EXCEPT ![tracker_instance] = FALSE]
    /\ stop_seen' = stop_seen \cup {k \in Starts : web_rpc[k] = "poll"}
    /\ UNCHANGED <<tracker_instance, latest_quotes, nstarts, web_rpc, web_wpc,
                   web_tmp, web_nfetch, elapsed>>
    /\ UNCHANGED <<cliVars, rdVars, fnVars, poolVars>>

\* Leaving the loop of run_demo_tracker / run_live_tracker: the global
\* instance's flag is cleared, the thread's tasks are cancelled and gathered.
WebLeave(k) ==
    /\ inst_running' = [inst_running EXCEPT ![tracker_instance] = FALSE]
    /\ web_wpc' = [web_wpc EXCEPT ![k] = CancelTask(@)]
    /\ web_rpc' = [web_rpc EXCEPT ![k] = "gather"]

\* The thread's coroutine up to its first await: the global instance's
\* running is set, the worker task is created, the loop's condition is read.
web_run_init(k) ==
    /\ web_rpc[k] = "spawned"
    /\ IF tracker_running
       THEN /\ inst_running' = [inst_running EXCEPT ![tracker_instance] = TRUE]
            /\ web_wpc' = [web_wpc EXCEPT ![k] = "start"]
            /\ web_rpc' = [web_rpc EXCEPT ![k] = "poll"]
       ELSE /\ inst_running' = [inst_running EXCEPT ![tracker_instance] = FALSE]
            /\ web_wpc' = [web_wpc EXCEPT ![k] = "cancelling"]
            /\ web_rpc' = [web_rpc EXCEPT ![k] = "gather"]
    /\ UNCHANGED <<tracker_instance, tracker_running, latest_quotes, nstarts,
                   web_tmp, web_nfetch, elapsed, stop_seen>>
    /\ UNCHANGED <<cliVars, rdVars, fnVars, poolVars>>

\* asyncio.sleep(1) is over and the loop's condition is false.  (When it is
\* true the coroutine sleeps again and nothing changes.)
web_run_stop(k) ==
    /\ web_rpc[k] = "poll"
    /\ AtAwait(k)
    /\ ~WebRunning
    /\ WebLeave(k)
    /\ UNCHANGED <<tracker_instance, tracker_running, latest_quotes, nstarts,
                   web_tmp, web_nfetch, elapsed, stop_seen>>
    /\ UNCHANGED <<cliVars, rdVars, fnVars, poolVars>>

web_task_cancelled(k) ==
    /\ web_wpc[k] = "cancelling"
    /\ web_wpc' = [web_wpc EXCEPT ![k] = "cancelled"]
    /\ UNCHANGED <<tracker_instance, tracker_running, inst_running, latest_quotes,
                   nstarts, web_rpc, web_tmp, web_nfetch, elapsed, stop_seen>>
    /\ UNCHANGED <<cliVars, rdVars, fnVars, poolVars>>

\* The gather returns and the coroutine ends (run_live_tracker closes the
\* session); neither wrapper runs a final analysis or an export.
web_run_done(k) ==
    /\ web_rpc[k] = "gather"
    /\ web_wpc[k] \in TaskEnded
    /\ web_rpc' = [web_rpc EXCEPT ![k] = "done"]
    /\ UNCHANGED <<tracker_instance, tracker_running, inst_running, latest_quotes,
                   nstarts, web_wpc, web_tmp, web_nfetch, elapsed, stop_seen>>
    /\ UNCHANGED <<cliVars, rdVars, fnVars, poolVars>>

\* config.duration seconds have gone by since thread k set start_time.
duration_elapses(k) ==
    /\ web_rpc[k] = "poll"
    /\ k \notin elapsed
    /\ elapsed' = elapsed \cup {k}
    /\ UNCHANGED <<tracker_instance, tracker_running, inst_running, latest_quotes,
                   nstarts, web_rpc, web_wpc, web_tmp, web_nfetch, stop_seen>>
    /\ UNCHANGED <<cliVars, rdVars, fnVars, poolVars>>

\* demo_worker_wrapper / live_worker_wrapper: the loop's head.
web_worker_loop(k) ==
    /\ web_wpc[k] \in {"start", "interval"}
    /\ IF WebRunning
       THEN /\ web_nfetch < MaxWebFetch
            /\ web_nfetch' = web_nfetch + 1
            /\ web_wpc' = [web_wpc EXCEPT ![k] = "fetch"]
       ELSE /\ web_wpc' = [web_wpc EXCEPT ![k] = "done"]
            /\ UNCHANGED web_nfetch
    /\ UNCHANGED <<tracker_instance, tracker_running, inst_running, latest_quotes,
                   nstarts, web_rpc, web_tmp, elapsed, stop_seen>>
    /\ UNCHANGED <<cliVars, rdVars, fnVars, poolVars>>

\* latest_quotes.append(quote)
WebAppend(k, quote) ==
    /\ latest_quotes' = Append(latest_quotes, quote)
    /\ web_wpc' = [web_wpc EXCEPT ![k] = "appended"]

web_fetch_return(k) ==
    /\ web_wpc[k] = "fetch"
    /\ \E resp \in Responses(mode) :
         WebAppend(k, MakeQuote(mode, resp, WebWorker(k)))
    /\ UNCHANGED <<tracker_instance, tracker_running, inst_running,
                   nstarts, web_rpc, web_tmp, web_nfetch, elapsed, stop_seen>>
    /\ UNCHANGED <<cliVars, rdVars, fnVars, poolVars>>

\* if len(latest_quotes) > 1000: the right-hand side latest_quotes[-500:]
\* is evaluated; otherwise the wrapper goes to its interval sleep.
web_trim_check(k) ==
    /\ web_wpc[k] = "appended"
    /\ IF Len(latest_quotes) > RetentionCap
       THEN /\ web_tmp' = [web_tmp EXCEPT ![k] = LastN(latest_quotes, RetentionKeep)]
            /\ web_wpc' = [web_wpc EXCEPT ![k] = "store"]
       ELSE /\ web_wpc' = [web_wpc EXCEPT ![k] = "interval"]
            /\ UNCHANGED web_tmp
    /\ UNCHANGED <<tracker_instance, tracker_running, inst_running, latest_quotes,
                   nstarts, web_rpc, web_nfetch, elapsed, stop_seen>>
    /\ UNCHANGED <<cliVars, rdVars, fnVars, poolVars>>

\* The assignment latest_quotes = <the slice>: the global names a new list.
\* A /api/data handler that holds the old list keeps it as it is now.
web_trim_store(k) ==
    /\ web_wpc[k] = "store"
    /\ latest_quotes' = web_tmp[k]
    /\ web_tmp' = [web_tmp EXCEPT ![k] = <<>>]
    /\ web_wpc' = [web_wpc EXCEPT ![k] = "interval"]
    /\ rd_alias' = FALSE
    /\ rd_recent' = IF rd_alias THEN latest_quotes ELSE rd_recent
    /\ UNCHANGED <<tracker_instance, tracker_running, inst_running,
                   nstarts, web_rpc, web_nfetch, elapsed, stop_seen>>
    /\ UNCHANGED <<cliVars, rd_pc, rd_len, rd_formatted, fnVars, poolVars>>

(***************************************************************************)
(* GET /api/data (get_data), one request.                                  *)
(***************************************************************************)
\* The list the handler's recent_quotes names.
RecentQuotes == IF rd_alias THEN latest_quotes ELSE rd_recent

\* len(latest_quotes) > 50
rd_check ==
    /\ rd_pc = "idle"
    /\ nstarts > 0
    /\ rd_len' = Len(latest_quotes)
    /\ rd_pc' = "checked"
    /\ UNCHANGED <<rd_alias, rd_recent, rd_formatted>>
    /\ UNCHANGED <<cliVars, webVars, fnVars, poolVars>>

\* recent_quotes = latest_quotes[-50:] if ... else latest_quotes
rd_bind ==
    /\ rd_pc = "checked"
    /\ IF rd_len > RecentWindow
       THEN /\ rd_recent' = LastN(latest_quotes, RecentWindow)
            /\ rd_alias' = FALSE
       ELSE /\ rd_recent' = <<>>
            /\ rd_alias' = TRUE
    /\ rd_pc' = "bound"
    /\ UNCHANGED <<rd_len, rd_formatted>>
    /\ UNCHANGED <<cliVars, webVars, fnVars, poolVars>>

\* The handler's two loops over recent_quotes (formatting, then drifts) and
\* its response.
rd_format ==
    /\ rd_pc = "bound"
    /\ rd_formatted' = RecentQuotes
    /\ rd_pc' = "done"
    /\ rd_alias' = FALSE
    /\ rd_recent' = <<>>
    /\ UNCHANGED rd_len
    /\ UNCHANGED <<cliVars, webVars, fnVars, poolVars>>

WebNext ==
    \/ start_tracker
    \/ stop_tracker
    \/ \E k \in Starts : web_run_init(k)
    \/ \E k \in Starts : web_run_stop(k)
    \/ \E k \in Starts : web_task_cancelled(k)
    \/ \E k \in Starts : web_run_done(k)
    \/ \E k \in Starts : duration_elapses(k)
    \/ \E k \in Starts : web_worker_loop(k)
    \/ \E k \in Starts : web_fetch_return(k)
    \/ \E k \in Starts : web_trim_check(k)
    \/ \E k \in Starts : web_trim_store(k)
    \/ rd_check
    \/ rd_bind
    \/ rd_format

\* The web interface in its default mode (demo_mode defaults to True).
WebInitDemo == Init /\ mode = "demo"

WebSpec == WebInitDemo /\ [][WebNext]_vars

\* Every thread runs, and its event loop resumes every task that is ready:
\* the run coroutine and the worker wrapper of each tracker thread take
\* their next step.  Requests to /api come when the client sends them.
WebFairSpec ==
    /\ WebSpec
    /\ \A k \in Starts :
          /\ WF_vars(web_run_init(k))
          /\ WF_vars(web_run_stop(k))
          /\ WF_vars(web_task_cancelled(k))
          /\ WF_vars(web_run_done(k))
          /\ WF_vars(web_worker_loop(k))
          /\ WF_vars(web_fetch_return(k))
          /\ WF_vars(web_trim_check(k))
          /\ WF_vars(web_trim_store(k))

Next ==
    \/ run_start
    \/ run_stop
    \/ finalize_analysis
    \/ interrupt
    \/ interrupt_teardown
    \/ interrupt_exit
    \/ \E w \in Workers : worker_loop(w)
    \/ \E w \in Workers : fetch_return(w)
    \/ \E w \in Workers : cooldown_done(w)
    \/ tasks_cancelled
    \/ \E t \in PeriodicTasks : periodic_loop(t)
    \/ \E t \in PeriodicTasks : periodic_wake(t)

Spec == Init /\ [][Next]_vars

\* The event loop runs every task that is ready: a worker whose sleep is
\* over is resumed.  Nothing makes the run's own sleep end early or late.
FairSpec == Spec /\ \A w \in Workers : WF_vars(worker_loop(w))

(***************************************************************************)
(* The analysis side: data_analyzer.py, utils.calculate_drift, the export  *)
(* of quote_tracker.py / demo_mode.py and the timing fields get_quote      *)
(* fills in.  These are functions of a list of samples; FnSpec gives each  *)
(* of them every list of FnInputs.                                         *)
(*                                                                         *)
(* Numbers.  Latencies are whole milliseconds.  A Python float that is a   *)
(* quotient of integers (a drift, the success rate) is the exact fraction  *)
(* [num, den] in lowest terms; the rounding of the float division is not   *)
(* modelled.  The numpy aggregates of analyze_quotes (mean, min, max, std, *)
(* var, percentile) are functions of the three lists latencies,            *)
(* output_amounts and drifts, which the model keeps in their place.        *)
(***************************************************************************)
\* The longest list of arbitrary samples given to a function.
MaxQuotes == 4
\* The longest run of equal samples in the lists given to
\* detect_price_anomalies, which needs 10 successful samples to do anything.
MaxRun == 20
\* The largest reading of the clock.
MaxClock == 3

Abs(x) == IF x < 0 THEN -x ELSE x

RECURSIVE GCD(_, _)
GCD(a, b) == IF b = 0 THEN a ELSE GCD(b, a % b)

\* The fraction n / d, d > 0, in lowest terms.
Rat(n, d) == LET g == GCD(Abs(n), d) IN [num |-> n \div g, den |-> d \div g]
RatAbs(r) == [num |-> Abs(r.num), den |-> r.den]
RatGT(r, s) == r.num * s.den > s.num * r.den
RatLT(r, s) == RatGT(s, r)
RatZero == Rat(0, 1)

\* self.latency_advantage_threshold = 0.05 (seconds), in milliseconds.
latency_advantage_threshold == 50
\* self.drift_threshold = 0.01 (percent).
drift_threshold == Rat(1, 100)

\* utils.calculate_drift
calculate_drift(previous_amount, current_amount) ==
    IF previous_amount = 0 THEN RatZero
    ELSE Rat((current_amount - previous_amount) * 100, previous_amount)

\* The fields of a QuoteData the analysis side reads.
FnQuote(latency, output_amount, success) ==
    [latency |-> latency, output_amount |-> output_amount, success |-> success]

\* Latencies 50 ms and 200 ms apart; amounts that are 0, 1 % apart, exactly
\* 0.01 % apart (10000 -> 9999) and just over 0.01 % apart (9999 -> 10000).
Latencies == {100, 150, 300}
Amounts == {0, 9900, 9999, 10000}
FnQuotes ==
    {FnQuote(l, a, TRUE) : l \in Latencies, a \in Amounts}
        \cup {FnQuote(100, 0, FALSE)}

ShortInputs == UNION {[1 .. n -> FnQuotes] : n \in 0 .. MaxQuotes}

\* Runs of the amount 100 followed by up to two of: an outlier of 1000, a
\* sample of 110, a failed sample.
RunTail == {FnQuote(300, 1000, TRUE), FnQuote(100, 110, TRUE), FnQuote(100, 0, FALSE)}
RunInputs ==
    {[i \in 1 .. n |-> FnQuote(100, 100, TRUE)] \o tail :
        n \in 0 .. MaxRun, tail \in UNION {[1 .. m -> RunTail] : m \in 0 .. 2}}

FnInputs == ShortInputs \cup RunInputs

\* The rule of analyze_frontrun_opportunities without the abs().
IsOpportunity_signed(previous, current) ==
    /\ previous.latency - current.latency > latency_advantage_threshold
    /\ RatGT(calculate_drift(previous.output_amount, current.output_amount),
             drift_threshold)

\* The test of analyze_frontrun_opportunities on one consecutive pair.
IsOpportunity(previous, current) ==
    /\ previous.latency - current.latency > latency_advantage_threshold
    /\ RatGT(RatAbs(calculate_drift(previous.output_amount, current.output_amount)),
             drift_threshold)

analyze_frontrun_opportunities(quote_list) ==
    Cardinality({i \in 2 .. Len(quote_list) : IsOpportunity(quote_list[i - 1], quote_list[i])})

\* One pass of the loop of QuoteTracker.front_running_simulator over the log:
\* the number of opportunities it prints.  It looks only once the log has
\* 10 samples, at the successful ones of the last 20, and only if there are
\* 5 of them; its rule is the one of the analyzer, written out again.
SimulatorMinQuotes == 10
SimulatorWindow == 20
SimulatorMinRecent == 5
front_running_simulator(quote_list) ==
    IF Len(quote_list) < SimulatorMinQuotes THEN 0
    ELSE LET recent_quotes == Successful(LastN(quote_list, SimulatorWindow))
         IN IF Len(recent_quotes) < SimulatorMinRecent THEN 0
            ELSE Cardinality({i \in 2 .. Len(recent_quotes) :
                                IsOpportunity(recent_quotes[i - 1], recent_quotes[i])})

\* np.corrcoef(latencies, price_changes)[0, 1], then nan -> 0.0.  The value
\* is nan when either list is constant; for two points it is 1 or -1; for
\* more points the model keeps only that it is Pearson's r ("r").
calculate_latency_price_correlation(quote_list) ==
    IF Len(quote_list) < 3 THEN "0.0"
    ELSE LET pairs == 2 .. Len(quote_list)
             lat(i) == quote_list[i].latency
             chg(i) == RatAbs(calculate_drift(quote_list[i - 1].output_amount,
                                              quote_list[i].output_amount))
             constant == \/ \A i, j \in pairs : lat(i) = lat(j)
                         \/ \A i, j \in pairs : chg(i) = chg(j)
         IN IF constant THEN "0.0"
            ELSE IF Len(quote_list) = 3
                 THEN IF (lat(3) > lat(2)) = RatGT(chg(3), chg(2)) THEN "1.0" ELSE "-1.0"
                 ELSE "r"

\* Python's None and a returned dict, for analyze_quotes' Optional[Dict].
None == [kind |-> "None"]

\* A test for too few successful samples that asks for three.
TooFew_three(successful_quotes) == Len(successful_quotes) < 3

\* if len(successful_quotes) < 2: return None
TooFew(successful_quotes) == Len(successful_quotes) < 2

\* Counts taken over the successful samples only.
Counts_successful_only(quote_list, successful_quotes) ==
    [total_quotes |-> Len(successful_quotes),
     successful_quotes |-> Len(successful_quotes),
     failed_quotes |-> 0,
     success_rate |-> Rat(Len(successful_quotes) * 100, Len(successful_quotes))]

\* 'total_quotes', 'successful_quotes', 'failed_quotes', 'success_rate'
Counts(quote_list, successful_quotes) ==
    [total_quotes |-> Len(quote_list),
     successful_quotes |-> Len(successful_quotes),
     failed_quotes |-> Len(quote_list) - Len(successful_quotes),
     success_rate |-> Rat(Len(successful_quotes) * 100, Len(quote_list))]

\* Pairs formed over the input as it is, failures included.
PairSource_raw(quote_list, successful_quotes) == quote_list

\* The list analyze_quotes forms its consecutive pairs over.
PairSource(quote_list, successful_quotes) == successful_quotes

\* The drifts list of analyze_quotes.
Drifts(sq) ==
    [i \in 1 .. (Len(sq) - 1) |->
        calculate_drift(sq[i].output_amount, sq[i + 1].output_amount)]

\* len([d for d in drifts if d > 0]), ... if d < 0, ... if abs(d) > threshold.
positive_drifts(drifts) ==
    Cardinality({i \in 1 .. Len(drifts) : RatGT(drifts[i], RatZero)})
negative_drifts(drifts) ==
    Cardinality({i \in 1 .. Len(drifts) : RatLT(drifts[i], RatZero)})
significant_drifts(drifts) ==
    Cardinality({i \in 1 .. Len(drifts) : RatGT(RatAbs(drifts[i]), drift_threshold)})

analyze_quotes(quote_list) ==
    LET successful_quotes == Successful(quote_list)
        sq == PairSource(quote_list, successful_quotes)
        drifts == Drifts(sq)
        counts == Counts(quote_list, successful_quotes)
    IN IF quote_list = <<>> \/ TooFew(successful_quotes) \/ drifts = <<>>
       THEN None
       ELSE [kind |-> "dict",
             total_quotes |-> counts.total_quotes,
             successful_quotes |-> counts.successful_quotes,
             failed_quotes |-> counts.failed_quotes,
             success_rate |-> counts.success_rate,
             latencies |-> [i \in 1 .. Len(successful_quotes) |->
                               successful_quotes[i].latency],
             output_amounts |-> [i \in 1 .. Len(successful_quotes) |->
                                    successful_quotes[i].output_amount],
             drifts |-> drifts,
             frontrun_opportunities |-> analyze_frontrun_opportunities(sq),
             latency_price_correlation |-> calculate_latency_price_correlation(sq),
             positive_drifts |-> positive_drifts(drifts),
             negative_drifts |-> negative_drifts(drifts),
             significant_drifts |-> significant_drifts(drifts)]

RECURSIVE SumSeq(_)
SumSeq(seq) == IF seq = <<>> THEN 0 ELSE Head(seq) + SumSeq(Tail(seq))

\* detect_price_anomalies' default z_threshold (2.0) and its least number
\* of successful samples.
z_threshold == 2
MinAnomalySamples == 10

\* abs(x - mean) / std > z_threshold for the population std of the amounts,
\* both sides squared and multiplied by n * n * variance.  With std = 0 the
\* quotient is nan and the comparison false, as here.
ZScoreExceeds(x, output_amounts) ==
    LET n == Len(output_amounts)
        total == SumSeq(output_amounts)
        squares == SumSeq([i \in 1 .. n |-> output_amounts[i] * output_amounts[i]])
    IN (n * x - total) * (n * x - total)
           > z_threshold * z_threshold * (n * squares - total * total)

\* Candidates that include the failed samples.
AnomalyCandidates_all(quote_list) == quote_list

\* successful_quotes = [q for q in quotes if q.success]
AnomalyCandidates(quote_list) == Successful(quote_list)

detect_price_anomalies(quote_list) ==
    LET successful_quotes == AnomalyCandidates(quote_list)
        output_amounts == [i \in 1 .. Len(successful_quotes) |->
                              successful_quotes[i].output_amount]
        flagged == SelectSeq(successful_quotes,
                             LAMBDA q : ZScoreExceeds(q.output_amount, output_amounts))
    IN IF Len(successful_quotes) < MinAnomalySamples THEN <<>>
       ELSE [i \in 1 .. Len(flagged) |->
                [output_amount |-> flagged[i].output_amount,
                 latency_ms |-> flagged[i].latency]]

\* round(x, 4) of a fraction, as a fraction: to the nearest multiple of
\* 0.0001, a tie to the even one.
Round4(r) ==
    LET t == r.num * 10000
        q == t \div r.den
        rem == t % r.den
        k == IF 2 * rem > r.den THEN q + 1
             ELSE IF 2 * rem < r.den THEN q
             ELSE IF q % 2 = 0 THEN q ELSE q + 1
    IN Rat(k, 10000)

\* A flag taken from the drift as it is written, after rounding.
is_mev_of_rounded(drift_pct) == RatGT(RatAbs(Round4(drift_pct)), Rat(1, 100))

\* is_mev = abs(drift_pct) > 0.01, on the drift before it is rounded.
is_mev(drift_pct) == RatGT(RatAbs(drift_pct), Rat(1, 100))

\* An export that writes a row for every sample.
ExportedQuotes_all(quote_list) == quote_list

\* successful_quotes = [q for q in self.quotes if q.success]
ExportedQuotes(quote_list) == Successful(quote_list)

\* The rows export_to_csv / export_demo_to_csv write (none, and no file,
\* when there is no successful sample).  previous_amount is None for the
\* first row; `if previous_amount:` is also false for a previous amount 0.
export_to_csv(quote_list) ==
    LET successful_quotes == ExportedQuotes(quote_list)
        drift_pct(i) ==
            IF i = 1 \/ successful_quotes[i - 1].output_amount = 0 THEN RatZero
            ELSE calculate_drift(successful_quotes[i - 1].output_amount,
                                 successful_quotes[i].output_amount)
    IN [i \in 1 .. Len(successful_quotes) |->
           [latency_ms |-> successful_quotes[i].latency,
            output_amount |-> successful_quotes[i].output_amount,
            drift_pct |-> Round4(drift_pct(i)),
            is_mev_opportunity |-> is_mev(drift_pct(i))]]

\* Timing fields with the subtraction the other way round.
QuoteTiming_reversed(request_time, response_time) ==
    [timestamp |-> request_time, request_time |-> request_time,
     response_time |-> response_time, latency |-> request_time - response_time]

\* timestamp, request_time, response_time and latency as every QuoteData(...)
\* of get_quote and get_demo_quote sets them.
QuoteTiming(request_time, response_time) ==
    [timestamp |-> request_time, request_time |-> request_time,
     response_time |-> response_time, latency |-> response_time - request_time]

\* The readings of time.time() in get_quote: t0 on entry, t1 when the
\* response is there, t2 in the except clause (which reads the clock again).
get_quote_timing(resp, t0, t1, t2) ==
    IF resp.kind = "exc" THEN QuoteTiming(t0, t2) ELSE QuoteTiming(t0, t1)

\* get_demo_quote reads the clock on entry and after its simulated wait.
get_demo_quote_timing(resp, t0, t1, t2) == QuoteTiming(t0, t1)

\* A function of the analysis side is given one of the lists.
FnInit ==
    /\ CliInit
    /\ mode = "live"
    /\ WebInit
    /\ fn_quotes \in FnInputs
    /\ fn_op = "none"
    /\ fn_out = <<>>
    /\ PoolIdle

Apply(op, result) ==
    /\ fn_op = "none"
    /\ fn_op' = op
    /\ fn_out' = result
    /\ UNCHANGED <<fn_quotes, cliVars, webVars, rdVars, poolVars>>

apply_analyze_quotes == Apply("analyze_quotes", analyze_quotes(fn_quotes))

\* analyze_quotes calls the next two with successful_quotes.
apply_analyze_frontrun_opportunities ==
    Apply("analyze_frontrun_opportunities",
          analyze_frontrun_opportunities(Successful(fn_quotes)))

apply_front_running_simulator ==
    Apply("front_running_simulator", front_running_simulator(fn_quotes))

apply_calculate_latency_price_correlation ==
    Apply("calculate_latency_price_correlation",
          calculate_latency_price_correlation(Successful(fn_quotes)))

apply_detect_price_anomalies ==
    Apply("detect_price_anomalies", detect_price_anomalies(fn_quotes))

apply_export_to_csv == Apply("export_to_csv", export_to_csv(fn_quotes))

Clock == 0 .. MaxClock

\* One call of get_quote or get_demo_quote under a clock that does not go
\* backwards; the call takes no list.
apply_get_quote ==
    /\ fn_quotes = <<>>
    /\ \E m \in {"live", "demo"} : \E resp \in Responses(m) :
       \E t0, t1, t2 \in Clock :
         /\ t0 <= t1 /\ t1 <= t2
         /\ Apply("get_quote",
                  [quote |-> MakeQuote(m, resp, 0),
                   timing |-> IF m = "live" THEN get_quote_timing(resp, t0, t1, t2)
                              ELSE get_demo_quote_timing(resp, t0, t1, t2)])

FnNext ==
    \/ apply_analyze_quotes
    \/ apply_analyze_frontrun_opportunities
    \/ apply_front_running_simulator
    \/ apply_calculate_latency_price_correlation
    \/ apply_detect_price_anomalies
    \/ apply_export_to_csv
    \/ apply_get_quote

FnSpec == FnInit /\ [][FnNext]_vars

(***************************************************************************)
(* The consumers of the log that look at consecutive pairs: one pass of    *)
(* the two front-running simulators, calculate_mev_profitability, and the  *)
(* drift loops of /api/data and of the web stats_reporter.  ScanSpec gives *)
(* each of them every list of ScanInputs: a sample or none, failed         *)
(* samples, a run of equal successful samples, up to two samples more.     *)
(***************************************************************************)
\* The longest run of equal successful samples in a list of ScanInputs.
MaxScanRun == 20

\* Before a sample of the run (100 ms, amount 100): 200 ms slower and 10 %
\* higher; 50 ms slower and 10 % higher; a successful sample of amount 0
\* (a response without outAmount); a failed sample; a sample of the run.
ScanSamples ==
    {FnQuote(300, 110, TRUE), FnQuote(150, 110, TRUE), FnQuote(300, 0, TRUE),
     FnQuote(100, 0, FALSE), FnQuote(100, 100, TRUE)}
FailedRuns == {0, 6, 16}
ScanInputs ==
    {head \o [i \in 1 .. m |-> FnQuote(100, 0, FALSE)]
          \o [i \in 1 .. n |-> FnQuote(100, 100, TRUE)] \o tail :
        head \in UNION {[1 .. k -> ScanSamples] : k \in 0 .. 1},
        m \in FailedRuns, n \in 0 .. MaxScanRun,
        tail \in UNION {[1 .. k -> ScanSamples] : k \in 0 .. 2}}

\* timing_advantage > 0.05 in front_running_simulator and > 0.02 in
\* demo_front_running_simulator, in milliseconds.
simulator_timing_advantage == 50
demo_simulator_timing_advantage == 20

\* if timing_advantage > ... and abs(price_drift) > 0.01
SimulatorRule(previous, current, advantage) ==
    /\ previous.latency - current.latency > advantage
    /\ RatGT(RatAbs(calculate_drift(previous.output_amount, current.output_amount)),
             Rat(1, 100))

\* The successful samples of the whole log.
recent_quotes_whole(quote_list) ==
    SelectSeq([i \in 1 .. Len(quote_list) |-> i], LAMBDA j : quote_list[j].success)

\* recent_quotes = [q for q in self.quotes[-20:] if q.success], each sample
\* as its position in the log.
recent_quotes(quote_list) ==
    LET first == IF Len(quote_list) <= SimulatorWindow THEN 1
                 ELSE Len(quote_list) - SimulatorWindow + 1
    IN SelectSeq([i \in 1 .. (Len(quote_list) - first + 1) |-> first + i - 1],
                 LAMBDA j : quote_list[j].success)

\* A loop that takes every pair up twice.
SimulatorPairs_repeated(recent) ==
    [i \in 1 .. 2 * (Len(recent) - 1) |->
        <<recent[((i + 1) \div 2)], recent[((i + 1) \div 2) + 1]>>]

\* for i in range(1, len(recent_quotes)): previous, current
SimulatorPairs(recent) ==
    [i \in 1 .. (Len(recent) - 1) |-> <<recent[i], recent[i + 1]>>]

\* One pass of the loop body of a simulator: the pairs it looked at and
\* those it printed an opportunity for, as positions in the log.
SimulatorPass(quote_list, advantage) ==
    LET recent == recent_quotes(quote_list)
        gated == \/ Len(quote_list) < SimulatorMinQuotes
                 \/ Len(recent) < SimulatorMinRecent
        pairs == IF gated THEN <<>> ELSE SimulatorPairs(recent)
    IN [examined |-> pairs,
        reported |-> SelectSeq(pairs,
                        LAMBDA pr : SimulatorRule(quote_list[pr[1]], quote_list[pr[2]],
                                                  advantage))]

\* Pairs taken over the successful samples.
MevPair_successful(quote_list, successful_quotes, i) ==
    <<successful_quotes[i - 1], successful_quotes[i]>>

\* current = quotes[i]; previous = quotes[i-1]
MevPair(quote_list, successful_quotes, i) == <<quote_list[i - 1], quote_list[i]>>

\* calculate_mev_profitability with its default gas_cost of 0.01: a pair of
\* integer amounts is profitable when they differ, and its profit is the
\* difference less 0.01, here in hundredths.  An empty dict is <<>>.
calculate_mev_profitability(quote_list) ==
    LET successful_quotes == Successful(quote_list)
        diff(i) == LET pr == MevPair(quote_list, successful_quotes, i)
                   IN Abs(pr[2].output_amount - pr[1].output_amount)
        profitable == {i \in 2 .. Len(successful_quotes) : diff(i) > 0}
        profits == SelectSeq([i \in 1 .. (Len(successful_quotes) - 1) |-> 100 * diff(i + 1) - 1],
                             LAMBDA x : x > 0)
    IN IF Len(successful_quotes) < 2 THEN <<>>
       ELSE <<[profitable_opportunities |-> Cardinality(profitable),
               total_potential_profit |-> SumSeq(profits),
               profitability_rate |-> Rat(Cardinality(profitable) * 100,
                                          Len(successful_quotes))]>>

\* drift = ((curr_amount - prev_amount) / prev_amount) * 100, as the web
\* layer writes it out: a previous amount of 0 raises.
InlineDrift(prev_amount, curr_amount) ==
    IF prev_amount = 0 THEN [error |-> "ZeroDivisionError", drift |-> RatZero]
    ELSE [error |-> "none",
          drift |-> Rat((curr_amount - prev_amount) * 100, prev_amount)]

\* The error of the first drift that raises, if one does.
FirstError(drifts) ==
    IF \E i \in 1 .. Len(drifts) : drifts[i].error # "none"
    THEN "ZeroDivisionError" ELSE "none"

\* The second loop of get_data over recent_quotes; the handler has no
\* try/except, an exception is the response 500.
get_data_drifts(recent) ==
    LET drifts == [i \in 1 .. (Len(recent) - 1) |->
                      IF recent[i + 1].success /\ recent[i].success
                      THEN InlineDrift(recent[i].output_amount, recent[i + 1].output_amount)
                      ELSE [error |-> "none", drift |-> RatZero]]
    IN [error |-> FirstError(drifts), caught |-> FALSE,
        latest_stats |-> FALSE]

\* One iteration of stats_reporter: the drifts over the successful samples
\* inside its try block; when one raises the handler prints the error and
\* latest_stats is not assigned.
stats_reporter_drifts(latest) ==
    LET successful_quotes == Successful(latest)
        drifts == [i \in 1 .. (Len(successful_quotes) - 1) |->
                      InlineDrift(successful_quotes[i].output_amount,
                                  successful_quotes[i + 1].output_amount)]
    IN [error |-> FirstError(drifts), caught |-> FirstError(drifts) # "none",
        latest_stats |-> Len(successful_quotes) > 1 /\ FirstError(drifts) = "none"]

ScanInit ==
    /\ CliInit
    /\ mode = "live"
    /\ WebInit
    /\ fn_quotes \in ScanInputs
    /\ fn_op = "none"
    /\ fn_out = <<>>
    /\ PoolIdle

scan_front_running_simulator ==
    Apply("front_running_simulator",
          SimulatorPass(fn_quotes, simulator_timing_advantage))

scan_demo_front_running_simulator ==
    Apply("demo_front_running_simulator",
          SimulatorPass(fn_quotes, demo_simulator_timing_advantage))

\* The next pass of the simulator, 5 s later, over a log of the same
\* content: the task keeps nothing from one pass to the next.
scan_again ==
    /\ fn_op = "front_running_simulator"
    /\ fn_op' = "front_running_simulator again"
    /\ fn_out' = SimulatorPass(fn_quotes, simulator_timing_advantage)
    /\ UNCHANGED <<fn_quotes, cliVars, webVars, rdVars, poolVars>>

scan_calculate_mev_profitability ==
    Apply("calculate_mev_profitability", calculate_mev_profitability(fn_quotes))

\* A list of at most 50 samples is read whole by get_data.
scan_get_data == Apply("get_data", get_data_drifts(fn_quotes))

scan_stats_reporter == Apply("stats_reporter", stats_reporter_drifts(fn_quotes))

ScanNext ==
    \/ scan_front_running_simulator
    \/ scan_demo_front_running_simulator
    \/ scan_again
    \/ scan_calculate_mev_profitability
    \/ scan_get_data
    \/ scan_stats_reporter

ScanSpec == ScanInit /\ [][ScanNext]_vars

(***************************************************************************)
(* One pool of workers under a clock: Config (config.py), the worker loop  *)
(* of quote_tracker.py / demo_mode.py with the sleeps it takes, and the    *)
(* times get_quote / get_demo_quote read.  Time is in whole seconds; a     *)
(* sleep of d seconds is over no earlier than d seconds after it began.    *)
(* Floats are fractions [num, den]; den = 0 is nan, whose comparisons are  *)
(* all false.                                                              *)
(***************************************************************************)
MaxPoolFetch == 2
MaxNow == 3

NaN == [num |-> 0, den |-> 0]
IsNaN(r) == r.den = 0
\* Python's <= and < on floats.
FloatLE(r, s) == ~IsNaN(r) /\ ~IsNaN(s) /\ r.num * s.den <= s.num * r.den
FloatLT(r, s) == ~IsNaN(r) /\ ~IsNaN(s) /\ r.num * s.den < s.num * r.den
\* Python's / on floats.  No divisor is 0 where the model divides:
\* __post_init__ has rejected a frequency or a worker count of 0.
FloatDiv(r, s) ==
    IF IsNaN(r) \/ IsNaN(s) \/ s.num = 0 THEN NaN
    ELSE IF s.num > 0 THEN Rat(r.num * s.den, r.den * s.num)
         ELSE Rat(-(r.num * s.den), r.den * (-s.num))

\* The arguments Config is built from (argparse in main.py, the JSON body
\* in web_app.py): floats for frequency and latency_injection, ints else.
Frequencies == {NaN, Rat(-1, 1), Rat(0, 1), Rat(1, 2), Rat(2, 1)}
LatencyInjections == {Rat(-1, 2), Rat(0, 1), Rat(1, 1)}
RawConfigs ==
    [frequency : Frequencies, duration : {0, 3},
     concurrent_requests : {0, 1, 2}, amount : {0, 1000000},
     slippage_bps : {-1, 0}, latency_injection : LatencyInjections]

\* Config.__post_init__: the conditions under which it raises ValueError.
Config_post_init_raises(c) ==
    \/ FloatLE(c.frequency, RatZero)
    \/ c.duration <= 0
    \/ c.concurrent_requests <= 0
    \/ c.amount <= 0
    \/ c.slippage_bps < 0
    \/ FloatLT(c.latency_injection, RatZero)

\* Config.requests_per_worker and Config.worker_interval.
requests_per_worker(c) == FloatDiv(c.frequency, Rat(c.concurrent_requests, 1))
worker_interval(c) == FloatDiv(Rat(1, 1), requests_per_worker(c))

\* A worker that sleeps for the requests per second of a worker.
quote_worker_interval_rate(c) ==
    FloatDiv(c.frequency, Rat(c.concurrent_requests, 1))

\* interval = 1.0 / (self.config.frequency / self.config.concurrent_requests)
\* of quote_worker, demo_worker and the two wrappers of web_app.py.
quote_worker_interval(c) ==
    FloatDiv(Rat(1, 1), FloatDiv(c.frequency, Rat(c.concurrent_requests, 1)))

\* The whole seconds a sleep of d seconds takes at least.
Seconds(d) == (d.num + d.den - 1) \div d.den

\* The workers run starts: range(config.concurrent_requests).
PoolWorkers(c) == {w \in Workers : w < c.concurrent_requests}

PoolInit ==
    /\ CliInit
    /\ WebInit
    /\ FnIdle
    /\ pool_cfg \in RawConfigs
    /\ p_wrapper \in BOOLEAN
    /\ PoolAtRest

\* config = Config(...), in main and in start_tracker, before a tracker is
\* made.
Config_post_init ==
    /\ pool_pc = "new"
    /\ pool_pc' = IF Config_post_init_raises(pool_cfg) THEN "ValueError" ELSE "configured"
    /\ UNCHANGED <<pool_cfg, p_now, p_wpc, p_until, p_dur, p_call, p_log, p_nfetch>>
    /\ UNCHANGED <<cliVars, webVars, rdVars, fnVars, p_wrapper, p_requests>>

\* run / run_demo up to its sleep: the workers are created.
pool_run ==
    /\ pool_pc = "configured"
    /\ pool_pc' = "running"
    /\ p_wpc' = [w \in Workers |-> IF w \in PoolWorkers(pool_cfg) THEN "start" ELSE "none"]
    /\ UNCHANGED <<pool_cfg, p_now, p_until, p_dur, p_call, p_log, p_nfetch>>
    /\ UNCHANGED <<cliVars, webVars, rdVars, fnVars, p_wrapper, p_requests>>

\* The duration is over: running is cleared and the workers are cancelled
\* at the awaits they are in.
pool_stop ==
    /\ pool_pc = "running"
    /\ p_now >= pool_cfg.duration
    /\ pool_pc' = "stopped"
    /\ p_wpc' = [w \in Workers |-> IF p_wpc[w] = "none" THEN "none" ELSE "cancelled"]
    /\ p_until' = [w \in Workers |-> 0]
    /\ p_dur' = [w \in Workers |-> RatZero]
    /\ p_call' = [w \in Workers |-> NoCall]
    /\ UNCHANGED <<pool_cfg, p_now, p_log, p_nfetch>>
    /\ UNCHANGED <<cliVars, webVars, rdVars, fnVars, p_wrapper, p_requests>>

pool_tick ==
    /\ pool_pc = "running"
    /\ p_now < MaxNow
    /\ p_now' = p_now + 1
    /\ UNCHANGED <<pool_cfg, pool_pc, p_wpc, p_until, p_dur, p_call, p_log, p_nfetch>>
    /\ UNCHANGED <<cliVars, webVars, rdVars, fnVars, p_wrapper, p_requests>>

\* The loop's head, when the task first runs and when its sleep is over:
\* get_quote reads request_time, then sleeps for latency_injection if that
\* is > 0, else issues the request at once.
pool_worker_loop(w) ==
    /\ pool_pc = "running"
    /\ \/ p_wpc[w] = "start"
       \/ p_wpc[w] \in {"interval", "backoff"} /\ p_now >= p_until[w]
    /\ p_nfetch < MaxPoolFetch
    /\ p_nfetch' = p_nfetch + 1
    /\ p_call' = [p_call EXCEPT ![w] = [request_time |-> p_now, issued_at |-> p_now,
                                        response_time |-> 0]]
    /\ IF RatGT(pool_cfg.latency_injection, RatZero)
       THEN /\ p_wpc' = [p_wpc EXCEPT ![w] = "inject"]
            /\ p_until' = [p_until EXCEPT ![w] = p_now + Seconds(pool_cfg.latency_injection)]
       ELSE /\ p_wpc' = [p_wpc EXCEPT ![w] = "fetch"]
            /\ p_until' = [p_until EXCEPT ![w] = 0]
    /\ p_dur' = [p_dur EXCEPT ![w] = RatZero]
    /\ UNCHANGED <<pool_cfg, pool_pc, p_now, p_log>>
    /\ UNCHANGED <<cliVars, webVars, rdVars, fnVars, p_wrapper, p_requests>>

\* The injected sleep is over: the request is issued.
pool_inject_done(w) ==
    /\ p_wpc[w] = "inject"
    /\ p_now >= p_until[w]
    /\ p_wpc' = [p_wpc EXCEPT ![w] = "fetch"]
    /\ p_call' = [p_call EXCEPT ![w].issued_at = p_now]
    /\ p_until' = [p_until EXCEPT ![w] = 0]
    /\ UNCHANGED <<pool_cfg, pool_pc, p_now, p_dur, p_log, p_nfetch>>
    /\ UNCHANGED <<cliVars, webVars, rdVars, fnVars, p_wrapper, p_requests>>

\* self.quotes.append(quote), at the front instead of the end.
LogAppend_front(log, q) == <<q>> \o log

\* self.quotes.append(quote)
LogAppend(log, q) == Append(log, q)

\* The counters after one sample.  get_quote counts the sample as
\* successful or failed before it returns it; get_demo_quote counts a
\* successful sample only, and demo_worker counts a failed one after its
\* print, which an exception of the print skips.  Every worker and wrapper
\* counts total_requests after its append; the wrappers of web_app.py
\* count nothing else.
CountRequests(requests, m, wrapper, success, raised) ==
    [total_requests |-> requests.total_requests + 1,
     successful_requests |->
         requests.successful_requests + (IF success THEN 1 ELSE 0),
     failed_requests |->
         requests.failed_requests
             + (IF success THEN 0
                ELSE IF m = "live" THEN 1
                ELSE IF wrapper \/ raised THEN 0 ELSE 1)]

\* The sample get_quote returns for the call of worker w, and what the
\* worker does with it: the append, then asyncio.sleep(interval), or
\* asyncio.sleep(1) when the rest of the iteration raised.  A sleep of nan
\* (a frequency of nan) never ends, or raises ValueError on the Pythons
\* that reject it, which the except clause catches.
PoolAfterQuote(w, call, success, raised) ==
    LET timing == QuoteTiming(call.request_time, call.response_time)
        interval == quote_worker_interval(pool_cfg)
    IN /\ p_log' = LogAppend(p_log, [worker |-> w, success |-> success,
                                    issued_at |-> call.issued_at,
                                    request_time |-> timing.request_time,
                                    response_time |-> timing.response_time,
                                    latency |-> timing.latency])
       /\ p_requests' = CountRequests(p_requests, mode, p_wrapper, success, raised)
       /\ \/ /\ ~raised /\ ~IsNaN(interval)
             /\ p_wpc' = [p_wpc EXCEPT ![w] = "interval"]
             /\ p_dur' = [p_dur EXCEPT ![w] = interval]
             /\ p_until' = [p_until EXCEPT ![w] = p_now + Seconds(interval)]
          \/ /\ ~raised /\ IsNaN(interval)
             /\ p_wpc' = [p_wpc EXCEPT ![w] = "hung"]
             /\ p_dur' = [p_dur EXCEPT ![w] = interval]
             /\ p_until' = [p_until EXCEPT ![w] = 0]
          \/ /\ raised \/ IsNaN(interval)
             /\ p_wpc' = [p_wpc EXCEPT ![w] = "backoff"]
             /\ p_dur' = [p_dur EXCEPT ![w] = Rat(1, 1)]
             /\ p_until' = [p_until EXCEPT ![w] = p_now + 1]

\* The response arrives (or the client raises): response_time is read.  A
\* 429 of the live venue is followed by asyncio.sleep(2) inside get_quote.
pool_fetch_return(w) ==
    /\ p_wpc[w] = "fetch"
    /\ \E resp \in Responses(mode) :
         LET call == [p_call[w] EXCEPT !.response_time = p_now]
         IN IF RateLimited(mode, resp)
            THEN /\ p_wpc' = [p_wpc EXCEPT ![w] = "cooldown"]
                 /\ p_until' = [p_until EXCEPT ![w] = p_now + 2]
                 /\ p_call' = [p_call EXCEPT ![w] = call]
                 /\ UNCHANGED <<p_log, p_dur, p_requests>>
            ELSE /\ \E raised \in BOOLEAN :
                      PoolAfterQuote(w, call, MakeQuote(mode, resp, w).success, raised)
                 /\ p_call' = [p_call EXCEPT ![w] = NoCall]
    /\ UNCHANGED <<pool_cfg, pool_pc, p_now, p_nfetch>>
    /\ UNCHANGED <<cliVars, webVars, rdVars, fnVars, p_wrapper>>

pool_cooldown_done(w) ==
    /\ p_wpc[w] = "cooldown"
    /\ p_now >= p_until[w]
    /\ \E raised \in BOOLEAN : PoolAfterQuote(w, p_call[w], FALSE, raised)
    /\ p_call' = [p_call EXCEPT ![w] = NoCall]
    /\ UNCHANGED <<pool_cfg, pool_pc, p_now, p_nfetch>>
    /\ UNCHANGED <<cliVars, webVars, rdVars, fnVars, p_wrapper>>

\* timestamps = [q.timestamp for q in successful_quotes] of analyze_quotes;
\* every QuoteData has timestamp = request_time.
timestamps(quote_list) ==
    [i \in 1 .. Len(Successful(quote_list)) |-> Successful(quote_list)[i].request_time]

\* 'duration': timestamps[-1] - timestamps[0]
analysis_duration(ts) == ts[Len(ts)] - ts[1]

\* calculate_avg_interval: the mean of the differences of neighbours.
calculate_avg_interval(ts) ==
    IF Len(ts) < 2 THEN RatZero
    ELSE Rat(SumSeq([i \in 1 .. (Len(ts) - 1) |-> ts[i + 1] - ts[i]]), Len(ts) - 1)

PoolNext ==
    \/ Config_post_init
    \/ pool_run
    \/ pool_stop
    \/ pool_tick
    \/ \E w \in Workers : pool_worker_loop(w)
    \/ \E w \in Workers : pool_inject_done(w)
    \/ \E w \in Workers : pool_fetch_return(w)
    \/ \E w \in Workers : pool_cooldown_done(w)

PoolSpec == PoolInit /\ [][PoolNext]_vars

(***************************************************************************)
(* Properties of the command-line run.                                     *)
(***************************************************************************)
Prefix(s, t) == Len(s) <= Len(t) /\ SubSeq(t, 1, Len(s)) = s

\* C10: every sample in the log has an error detail exactly when it is not
\* a success (on success the detail is absent, None, not an empty string),
\* and a sample that is not a success has output_amount 0.
SampleWellFormed(q) ==
    /\ (q.error # PyNone) <=> ~q.success
    /\ ~q.success => q.output_amount = 0

C10_SamplesWellFormed ==
    \A i \in 1 .. Len(quotes) : SampleWellFormed(quotes[i])

\* A log with a success and with a failure whose exception message is empty.
C10_Witness ==
    \E i, j \in 1 .. Len(quotes) :
        /\ quotes[i].success /\ quotes[i].error = PyNone
        /\ ~quotes[j].success /\ quotes[j].error = ""

\* C4: a fetch that completes, failed or not, makes its worker append one
\* sample of its own to the log and go to its interval wait (or to the
\* backoff of its except clause), never to an end; the other workers are
\* where they were; and from that wait a worker of a run still running
\* goes nowhere but to its next fetch, unless the run cancels it.
C4_Step(w) ==
    /\ (/\ wpc[w] \in {"fetch", "cooldown"}
        /\ wpc'[w] \notin {"fetch", "cooldown", "cancelling"})
       => /\ Len(quotes') = Len(quotes) + 1
          /\ Prefix(quotes, quotes')
          /\ quotes'[Len(quotes')].worker = w
          /\ wpc'[w] \in {"interval", "backoff"}
          /\ \A v \in Workers \ {w} : wpc'[v] = wpc[v]
    /\ (/\ wpc[w] \in {"interval", "backoff"}
        /\ running
        /\ wpc'[w] \notin {wpc[w], "cancelling"})
       => wpc'[w] = "fetch"

C4_FailedFetchKeepsWorker == [][\A w \in Workers : C4_Step(w)]_vars

\* A worker that appended a failed sample is in its next fetch while the
\* other worker is in a fetch as well.
C4_Witness ==
    \E w \in Workers :
        /\ \E i \in 1 .. Len(quotes) : quotes[i].worker = w /\ ~quotes[i].success
        /\ wpc[w] = "fetch"
        /\ running
        /\ \E v \in Workers \ {w} : wpc[v] = "fetch"

\* The lifecycle state of the run, read off the run coroutine: Idle before
\* run is called, Running while it sleeps for the duration, Stopping from
\* the moment it leaves that sleep, Terminated when it has returned or the
\* process has ended.
Lifecycle ==
    CASE rpc = "idle" -> 0
      [] rpc = "sleep" -> 1
      [] rpc \in {"gather", "unwind", "teardown"} -> 2
      [] rpc \in {"done", "raised", "aborted"} -> 3

LifecycleStep ==
    /\ Lifecycle' \in {Lifecycle, Lifecycle + 1}
    /\ Lifecycle = 3 => UNCHANGED <<rpc, running, wpc, tpc, quotes>>

\* C8: the run only moves Idle -> Running -> Stopping -> Terminated, one
\* state at a time and never back, and once it is Terminated no task of it
\* is started or takes a step and no sample is appended.
C8_LifecycleOrder == [][LifecycleStep]_vars

\* A run that went through all four states with samples in its log.
C8_Witness ==
    /\ Lifecycle = 3
    /\ rpc = "done"
    /\ Len(quotes) > 0
    /\ \E w \in Workers : wpc[w] = "cancelled"

\* C2: the log of a command-line run never has more samples than the cap.
C2_LogWithinCap == Len(quotes) <= RetentionCap

\* C7: a run that has terminated has run the final analysis exactly once,
\* over the whole log, and handed the successful samples to the export.
C7_FinalAnalysisOnce ==
    Lifecycle = 3 =>
        /\ analysisCount = 1
        /\ analysisInput = quotes
        /\ exportCalls = 1
        /\ exportRows = Successful(quotes)

\* The states of a worker task that has not ended.
WorkerAlive == {"start", "fetch", "cooldown", "interval", "backoff"}

Min(a, b) == IF a <= b THEN a ELSE b

\* C1: the shared list changes only by the append of one sample after what
\* it held, by a retention trim of what it holds now (its last
\* RetentionKeep samples, when it holds more than RetentionCap), or by the
\* clearing a new start does: no appended sample goes any other way.
C1_LogStep ==
    \/ latest_quotes' = latest_quotes
    \/ /\ Len(latest_quotes') = Len(latest_quotes) + 1
       /\ Prefix(latest_quotes, latest_quotes')
    \/ /\ Len(latest_quotes) > RetentionCap
       /\ latest_quotes' = LastN(latest_quotes, RetentionKeep)
    \/ /\ nstarts' = nstarts + 1
       /\ latest_quotes' = <<>>

C1_AppendsLinearizable == [][C1_LogStep]_vars

\* C3: the samples a /api/data request formats are the list as it was at
\* the request's length check: as many as that length, or RecentWindow of
\* them when it was longer.
C3_ReaderSnapshot ==
    rd_pc = "done" => Len(rd_formatted) = Min(rd_len, RecentWindow)

\* C6: the worker of a run that was running when /api/stop was served
\* issues no further fetch once its current await is over.
C6_Step(k) ==
    (k \in stop_seen /\ web_wpc[k] \in {"start", "interval"})
        => web_wpc'[k] # "fetch"

C6_StopObserved == [][\A k \in Starts : C6_Step(k)]_vars

\* C9: once the configured duration of a web run has gone by, the
\* condition of the run's loop is false the next time the loop tests it.
C9_DurationEndsRun ==
    \A k \in Starts :
        (k \in elapsed /\ web_rpc[k] = "poll" /\ AtAwait(k)) => ~WebRunning

(***************************************************************************)
(* Properties of the analysis side.                                        *)
(***************************************************************************)
\* C11: the sample a call of get_quote or get_demo_quote returns, failed or
\* not, has latency = response_time - request_time, and under a clock that
\* does not go backwards the latency is not negative.
C11_LatencyIsDifference ==
    fn_op = "get_quote" =>
        /\ fn_out.timing.latency
               = fn_out.timing.response_time - fn_out.timing.request_time
        /\ fn_out.timing.latency >= 0

\* A failed sample of the except clause with a positive latency.
C11_Witness ==
    /\ fn_op = "get_quote"
    /\ ~fn_out.quote.success
    /\ fn_out.quote.error = ""
    /\ fn_out.timing.latency > 0

\* The opportunity rule on amounts: the timing advantage is over 50 ms and
\* the amounts differ by more than 0.01 % of the previous one.
OpportunityRule(previous, current) ==
    /\ previous.latency - current.latency > 50
    /\ previous.output_amount # 0
    /\ Abs(current.output_amount - previous.output_amount) * 10000
           > previous.output_amount

\* C12: analyze_frontrun_opportunities counts exactly the consecutive
\* successful pairs whose timing advantage is strictly over 0.05 s and whose
\* drift is strictly over 0.01 % in absolute value; a price decrease counts.
C12_OpportunityRule ==
    /\ fn_op = "analyze_frontrun_opportunities" =>
           LET sq == Successful(fn_quotes)
           IN fn_out = Cardinality({i \in 2 .. Len(sq) : OpportunityRule(sq[i - 1], sq[i])})
    /\ (fn_op = "front_running_simulator" /\ Len(fn_quotes) >= 10) =>
           LET sq == Successful(LastN(fn_quotes, 20))
           IN Len(sq) >= 5 =>
                  fn_out = Cardinality({i \in 2 .. Len(sq) : OpportunityRule(sq[i - 1], sq[i])})

\* Latencies 0.30 s then 0.10 s with amounts falling by 1 %: one opportunity.
C12_Witness ==
    /\ fn_op = "analyze_frontrun_opportunities"
    /\ fn_quotes = <<FnQuote(300, 10000, TRUE), FnQuote(100, 9900, TRUE)>>
    /\ fn_out = 1

\* C13: the drifts of analyze_quotes have no entry for a consecutive
\* successful pair whose previous amount is 0.
C13_ZeroPreviousSkipped ==
    (fn_op = "analyze_quotes" /\ fn_out.kind = "dict") =>
        LET sq == Successful(fn_quotes)
        IN Len(fn_out.drifts)
               = Cardinality({i \in 2 .. Len(sq) : sq[i - 1].output_amount # 0})

\* C14: analyze_quotes returns None exactly when its input has fewer than
\* two successful samples, and a result otherwise.
C14_NoneIffTooFew ==
    fn_op = "analyze_quotes" =>
        /\ fn_out.kind \in {"None", "dict"}
        /\ fn_out.kind = "None" <=> Len(Successful(fn_quotes)) < 2

\* None for an input of several samples of which one is successful.
C14_Witness ==
    /\ fn_op = "analyze_quotes"
    /\ Len(fn_quotes) >= 3
    /\ Len(Successful(fn_quotes)) = 1
    /\ fn_out.kind = "None"

\* C15: the counts of a result are over the whole input: total_quotes is
\* its length, successful_quotes + failed_quotes = total_quotes, and
\* success_rate = successful_quotes / total_quotes * 100.
C15_CountsOverFullInput ==
    (fn_op = "analyze_quotes" /\ fn_out.kind = "dict") =>
        /\ fn_out.total_quotes = Len(fn_quotes)
        /\ fn_out.successful_quotes = Len(Successful(fn_quotes))
        /\ fn_out.successful_quotes + fn_out.failed_quotes = fn_out.total_quotes
        /\ fn_out.success_rate.num * fn_out.total_quotes
               = fn_out.successful_quotes * 100 * fn_out.success_rate.den

\* A result for an input with failures: two of four samples failed.
C15_Witness ==
    /\ fn_op = "analyze_quotes"
    /\ fn_out.kind = "dict"
    /\ fn_out.total_quotes = 4
    /\ fn_out.failed_quotes = 2
    /\ fn_out.success_rate = Rat(50, 1)

\* The figures of a result that are not counts of the input.
Figures(result) ==
    [latencies |-> result.latencies,
     output_amounts |-> result.output_amounts,
     drifts |-> result.drifts,
     frontrun_opportunities |-> result.frontrun_opportunities,
     latency_price_correlation |-> result.latency_price_correlation,
     positive_drifts |-> result.positive_drifts,
     negative_drifts |-> result.negative_drifts,
     significant_drifts |-> result.significant_drifts]

\* C16: failed samples change only the counts and the success rate: the
\* drift, latency, amount, correlation and opportunity figures of
\* analyze_quotes are those of the input with its failed samples removed,
\* whose consecutive pairs are the pairs of the successful subsequence.
C16_FailuresOnlyInCounts ==
    (fn_op = "analyze_quotes" /\ fn_out.kind = "dict") =>
        LET sq == Successful(fn_quotes)
        IN /\ Figures(fn_out) = Figures(analyze_quotes(sq))
           /\ Len(fn_out.drifts) = Len(sq) - 1
           /\ \A i \in 1 .. Len(sq) - 1 :
                  sq[i].output_amount # 0 =>
                      fn_out.drifts[i] = Rat((sq[i + 1].output_amount - sq[i].output_amount) * 100,
                                             sq[i].output_amount)

\* Two successes separated by a failure form the pair that is the one
\* opportunity of the result.
C16_Witness ==
    /\ fn_op = "analyze_quotes"
    /\ fn_quotes = <<FnQuote(300, 10000, TRUE), FnQuote(100, 0, FALSE),
                     FnQuote(100, 9900, TRUE)>>
    /\ fn_out.kind = "dict"
    /\ fn_out.drifts = <<Rat(-1, 1)>>
    /\ fn_out.frontrun_opportunities = 1

C18_AnomaliesAreOutliers ==
    fn_op = "detect_price_anomalies" =>
        LET sq == Successful(fn_quotes)
            amounts == [i \in 1 .. Len(sq) |-> sq[i].output_amount]
            flagged == {i \in 1 .. Len(sq) : ZScoreExceeds(sq[i].output_amount, amounts)}
        IN /\ Len(sq) < 10 => fn_out = <<>>
           /\ Len(sq) >= 10 =>
                  /\ Len(fn_out) = Cardinality(flagged)
                  /\ \E at \in [1 .. Len(fn_out) -> flagged] :
                         /\ \A a, b \in 1 .. Len(fn_out) : a < b => at[a] < at[b]
                         /\ \A a \in 1 .. Len(fn_out) :
                                /\ fn_out[a].output_amount = sq[at[a]].output_amount
                                /\ fn_out[a].latency_ms = sq[at[a]].latency
           /\ (\E n \in 10 .. 20 :
                   amounts = [i \in 1 .. n |-> 100] \o <<1000>>) =>
                  /\ Len(fn_out) = 1
                  /\ fn_out[1].output_amount = 1000

\* Twenty samples of 100, then a failed sample, then the sample of 1000.
C18_Witness ==
    /\ fn_op = "detect_price_anomalies"
    /\ fn_quotes = [i \in 1 .. 20 |-> FnQuote(100, 100, TRUE)]
                       \o <<FnQuote(100, 0, FALSE), FnQuote(300, 1000, TRUE)>>
    /\ Len(fn_out) = 1
    /\ fn_out[1].output_amount = 1000

\* C19: export_to_csv writes one row per successful sample, in the order
\* of the log, and none for a failed sample.
C19_OneRowPerSuccess ==
    fn_op = "export_to_csv" =>
        LET sq == Successful(fn_quotes)
        IN /\ Len(fn_out) = Len(sq)
           /\ \A i \in 1 .. Len(sq) :
                  /\ fn_out[i].output_amount = sq[i].output_amount
                  /\ fn_out[i].latency_ms = sq[i].latency

\* Two rows for a log of two successes around two failures.
C19_Witness ==
    /\ fn_op = "export_to_csv"
    /\ fn_quotes = <<FnQuote(100, 0, FALSE), FnQuote(300, 10000, TRUE),
                     FnQuote(100, 0, FALSE), FnQuote(100, 9900, TRUE)>>
    /\ Len(fn_out) = 2

\* r is within half of 0.0001 of d and is a multiple of 0.0001.
RoundedTo4(r, d) ==
    /\ 10000 % r.den = 0
    /\ 2 * (10000 \div r.den) * Abs(r.num * d.den - d.num * r.den) <= d.den

\* The drift the exporter computes for row i of the successful samples sq.
ExportDrift(sq, i) ==
    IF i = 1 \/ sq[i - 1].output_amount = 0 THEN RatZero
    ELSE Rat((sq[i].output_amount - sq[i - 1].output_amount) * 100,
             sq[i - 1].output_amount)

\* C20 as stated: the first row has drift_pct 0.0 and is no opportunity;
\* a later row carries the drift from the sample before it, and it is an
\* opportunity iff the drift_pct it carries is over 0.01 in absolute value.
C20_FlagMatchesWrittenDrift ==
    fn_op = "export_to_csv" =>
        LET sq == Successful(fn_quotes)
        IN \A i \in 1 .. Len(fn_out) :
               /\ i = 1 => fn_out[i].drift_pct = RatZero /\ ~fn_out[i].is_mev_opportunity
               /\ (i > 1 /\ sq[i - 1].output_amount # 0) =>
                      RoundedTo4(fn_out[i].drift_pct, ExportDrift(sq, i))
               /\ fn_out[i].is_mev_opportunity
                      <=> RatGT(RatAbs(fn_out[i].drift_pct), Rat(1, 100))

\* C20: the first row has drift_pct 0.0 and is no opportunity; a later row
\* carries, rounded to 4 decimals, the drift from the sample before it (0.0
\* after an amount of 0), and it is an opportunity iff that drift, before
\* it is rounded, is over 0.01 in absolute value.
C20_FlagMatchesComputedDrift ==
    fn_op = "export_to_csv" =>
        LET sq == Successful(fn_quotes)
        IN \A i \in 1 .. Len(fn_out) :
               /\ i = 1 => fn_out[i].drift_pct = RatZero /\ ~fn_out[i].is_mev_opportunity
               /\ RoundedTo4(fn_out[i].drift_pct, ExportDrift(sq, i))
               /\ fn_out[i].is_mev_opportunity
                      <=> RatGT(RatAbs(ExportDrift(sq, i)), Rat(1, 100))

\* A row written with drift_pct 0.01 that is marked an opportunity: the
\* amounts 9999 then 10000 drift by 0.010001 %.
C20_Witness ==
    /\ fn_op = "export_to_csv"
    /\ Len(fn_out) = 2
    /\ fn_out[1].drift_pct = RatZero
    /\ ~fn_out[1].is_mev_opportunity
    /\ fn_out[2].drift_pct = Rat(1, 100)
    /\ fn_out[2].is_mev_opportunity

(***************************************************************************)
(* Failures of the export, of tasks and of the venue in a command-line run.*)
(***************************************************************************)
\* C21: an export that fails makes the run end by raising to its caller,
\* never by returning as if the file were written; when it does, every
\* task has ended, the final analysis has run once over the log, the log
\* is what the analysis was given, and the session is not left open.
C21_ExportFailureSurfaced ==
    /\ (exportCalls = 1 /\ exportRows # Successful(quotes)) => rpc = "raised"
    /\ rpc = "raised" =>
           /\ AllTasksEnded
           /\ ~running
           /\ analysisCount = 1
           /\ analysisInput = quotes
           /\ exportCalls = 1
           /\ session # "open"

\* A live run whose export failed, with its session closed.
C21_Witness ==
    /\ rpc = "raised"
    /\ mode = "live"
    /\ session = "closed"
    /\ Successful(quotes) # <<>>
    /\ exportRows = <<>>

\* C26: a worker is in the cooldown only from a fetch of the live tracker
\* and records nothing on entering it; leaving the cooldown it appends one
\* failed sample of its own, the HTTP 429 one, and goes to its interval
\* wait; a sample appended straight from a fetch is never the 429 one.
C26_Step(w) ==
    /\ (wpc'[w] = "cooldown" /\ wpc[w] # "cooldown")
       => /\ wpc[w] = "fetch"
          /\ mode = "live"
          /\ quotes' = quotes
    /\ (wpc[w] = "cooldown" /\ wpc'[w] \notin {"cooldown", "cancelling"})
       => /\ Len(quotes') = Len(quotes) + 1
          /\ Prefix(quotes, quotes')
          /\ quotes'[Len(quotes')] = QuoteData(w, 0, FALSE, HttpError(429))
          /\ wpc'[w] \in {"interval", "backoff"}
    /\ (wpc[w] = "fetch" /\ wpc'[w] \in {"interval", "backoff"})
       => quotes'[Len(quotes')].error # HttpError(429)

C26_CooldownOn429Only == [][\A w \in Workers : C26_Step(w)]_vars

\* A worker that recorded a 429 sample is in a later fetch of a run that is
\* running, and the log has a failure of another class.
C26_Witness ==
    \E w \in Workers :
        /\ \E i \in 1 .. Len(quotes) :
               quotes[i].worker = w /\ quotes[i].error = HttpError(429)
        /\ \E i \in 1 .. Len(quotes) : quotes[i].error = HttpError(500)
        /\ wpc[w] = "fetch"
        /\ running

\* C29: when every task the gather waits for has ended, the final analysis
\* is the run's next step whether or not a task ended by an exception, and
\* a run ends by raising only when its export failed.
C29_TaskFailureCollected ==
    /\ (rpc = "gather" /\ AllTasksEnded) => ENABLED finalize_analysis
    /\ rpc \in {"done", "raised"} => AllTasksEnded /\ analysisCount = 1 /\ exportCalls = 1
    /\ rpc = "raised" => exportRows # Successful(quotes)

\* A run that returned after its analysis and export although its
\* statistics task had ended by an exception.
C29_Witness ==
    /\ rpc = "done"
    /\ tpc["stats"] = "failed"
    /\ \E w \in Workers : wpc[w] = "cancelled"
    /\ analysisCount = 1
    /\ exportCalls = 1

\* C30: while the run is Running a periodic task does not end: whatever
\* one of its iterations raises, it sleeps again.
C30_Step(t) ==
    (tpc[t] = "sleep" /\ rpc = "sleep" /\ rpc' = "sleep") => tpc'[t] = "sleep"

C30_PeriodicFaultContained == [][\A t \in PeriodicTasks : C30_Step(t)]_vars

(***************************************************************************)
(* Properties of the configuration and of the pool under its clock.        *)
(***************************************************************************)
\* W / F for the configuration the pool was built from.
WOverF == Rat(pool_cfg.concurrent_requests * pool_cfg.frequency.den,
              pool_cfg.frequency.num)

\* C22: once Config has been called, arguments with frequency <= 0, a
\* worker count <= 0, amount <= 0, slippage < 0 or injected latency < 0
\* have raised; a pool whose Config raised has no worker, no fetch and no
\* sample; and the configuration of a pool that was started has
\* frequency > 0, worker count > 0, amount > 0, slippage >= 0 and
\* injected latency >= 0.
C22_ConfigValidated ==
    LET c == pool_cfg
    IN /\ (/\ pool_pc # "new"
           /\ \/ FloatLE(c.frequency, RatZero)
              \/ c.concurrent_requests <= 0
              \/ c.amount <= 0
              \/ c.slippage_bps < 0
              \/ FloatLT(c.latency_injection, RatZero))
          => pool_pc = "ValueError"
       /\ pool_pc = "ValueError" =>
              /\ \A w \in Workers : p_wpc[w] = "none"
              /\ p_log = <<>>
              /\ p_nfetch = 0
       /\ pool_pc \in {"running", "stopped"} =>
              /\ RatGT(c.frequency, RatZero)
              /\ c.concurrent_requests > 0
              /\ c.amount > 0
              /\ c.slippage_bps >= 0
              /\ FloatLE(RatZero, c.latency_injection)

\* C23: for a frequency F > 0 and W > 0 workers, Config.worker_interval
\* and the interval of the worker loops are both W / F, and a worker in
\* its interval sleep has asked for W / F seconds.
C23_IntervalIsWOverF ==
    (pool_pc \in {"configured", "running"} /\ RatGT(pool_cfg.frequency, RatZero)) =>
        /\ worker_interval(pool_cfg) = WOverF
        /\ quote_worker_interval(pool_cfg) = WOverF
        /\ \A w \in Workers :
               p_wpc[w] = "interval" =>
                   /\ p_dur[w] = WOverF
                   /\ p_until[w] * WOverF.den >= WOverF.num

\* Two workers at half a request per second: a worker sleeps for 4 s.
C23_Witness ==
    /\ pool_pc = "running"
    /\ pool_cfg.concurrent_requests = 2
    /\ pool_cfg.frequency = Rat(1, 2)
    /\ \E w \in Workers : p_wpc[w] = "interval" /\ p_dur[w] = Rat(4, 1)

\* C24: whichever way an iteration of a worker ended, the sleep the
\* worker takes before its next fetch is of at least W / F seconds.
C24_WaitAtLeastInterval ==
    (pool_pc = "running" /\ RatGT(pool_cfg.frequency, RatZero)) =>
        \A w \in Workers :
            p_wpc[w] \in {"interval", "backoff"} => ~RatLT(p_dur[w], WOverF)

\* C25: the request_time of a sample is the time its request was issued,
\* after the injected delay, so that the latency of the sample is the time
\* from issuing the request to its response.
C25_InjectionOutsideLatency ==
    \A i \in 1 .. Len(p_log) :
        /\ p_log[i].request_time = p_log[i].issued_at
        /\ p_log[i].latency = p_log[i].response_time - p_log[i].issued_at

WebActive ==
    {k \in Starts : web_wpc[k] \in {"start", "fetch", "appended", "store", "interval"}}

\* C28: a tracker thread that is in its loop has created, next to its
\* worker wrappers, one stats-report task and one opportunity-scan task, and
\* the wrappers appending to latest_quotes are those of one thread only
\* (W workers; one wrapper a thread here).
C28_TasksOfARun ==
    /\ \A k \in Starts : web_rpc[k] = "poll" => WebPeriodicTasks = PeriodicTasks
    /\ Cardinality(WebActive) <= 1

\* C35: at most one run of the web interface is in its loop at a time, and
\* a worker wrapper that is fetching does so through the tracker instance
\* (and configuration) its own start made.
C35_OneActiveRun ==
    /\ \A j, k \in Starts : (web_rpc[j] = "poll" /\ web_rpc[k] = "poll") => j = k
    /\ \A k \in Starts : web_wpc[k] = "fetch" => tracker_instance = k

\* C36: the worker of a run that was running when /api/stop was served
\* eventually ends, whatever requests follow the stop.
C36_StopNeverLost ==
    \A k \in Starts : (k \in stop_seen) ~> (web_wpc[k] \in TaskEnded)

(***************************************************************************)
(* Properties of the consumers of consecutive pairs.                       *)
(***************************************************************************)
ScanOps ==
    {"front_running_simulator", "demo_front_running_simulator",
     "front_running_simulator again"}

\* The successful samples among the last 20 of the log, as positions.
InWindow ==
    {j \in 1 .. Len(fn_quotes) : j > Len(fn_quotes) - 20 /\ fn_quotes[j].success}

\* a and b are successful samples of the window win with none between them.
ConsecutiveIn(win, a, b) ==
    /\ a \in win /\ b \in win /\ a < b
    /\ ~ \E c \in win : a < c /\ c < b

\* C31: a pass of a simulator over a log of fewer than 10 samples, or with
\* fewer than 5 successful samples among its last 20, looks at no pair and
\* reports none; otherwise the pairs it looks at are exactly the pairs of
\* consecutive successful samples among the last 20, and what it reports
\* are pairs it looked at.
C31_ScanWindow ==
    fn_op \in ScanOps =>
        LET win == InWindow
            examined == {fn_out.examined[i] : i \in 1 .. Len(fn_out.examined)}
        IN IF Len(fn_quotes) < 10 \/ Cardinality(win) < 5
           THEN fn_out.examined = <<>> /\ fn_out.reported = <<>>
           ELSE /\ \A pr \in examined : ConsecutiveIn(win, pr[1], pr[2])
                /\ \A a, b \in win : ConsecutiveIn(win, a, b) => <<a, b>> \in examined
                /\ \A i \in 1 .. Len(fn_out.reported) : fn_out.reported[i] \in examined

\* A log of more than 20 samples whose first two would be an opportunity:
\* the pass reports one from the window, and not that one.
C31_Witness ==
    /\ fn_op = "front_running_simulator"
    /\ Len(fn_quotes) > 20
    /\ fn_quotes[1].success /\ fn_quotes[2].success
    /\ SimulatorRule(fn_quotes[1], fn_quotes[2], simulator_timing_advantage)
    /\ fn_out.reported # <<>>
    /\ \A i \in 1 .. Len(fn_out.reported) : fn_out.reported[i] # <<1, 2>>

\* C32: a pass of the simulator leaves the log and the state of the tracker
\* as they are, reports no pair twice, and a second pass over the same log
\* reports what the first did.
C32_Step ==
    (fn_op' \in ScanOps /\ fn_op' # fn_op) =>
        /\ fn_quotes' = fn_quotes
        /\ UNCHANGED cliVars
        /\ \A i, j \in 1 .. Len(fn_out'.reported) :
               i # j => fn_out'.reported[i] # fn_out'.reported[j]
        /\ fn_op' = "front_running_simulator again" => fn_out' = fn_out

C33_ScannersMatchAnalyzer ==
    (/\ fn_op \in {"front_running_simulator", "demo_front_running_simulator"}
     /\ Len(fn_quotes) \in 10 .. 20
     /\ \A i \in 1 .. Len(fn_quotes) : fn_quotes[i].success)
        => Len(fn_out.reported) = analyze_quotes(fn_quotes).frontrun_opportunities

\* C38: the drift loops of /api/data and of the web stats reporter go
\* through every log without a division by zero.
C38_NoZeroDivision ==
    fn_op \in {"get_data", "stats_reporter"} => fn_out.error = "none"

\* C39: calculate_mev_profitability returns for a list what it returns for
\* the successful samples of the list, and an empty result when fewer than
\* two are successful.
C39_PairsOfSuccessfulSamples ==
    fn_op = "calculate_mev_profitability" =>
        /\ fn_out = calculate_mev_profitability(Successful(fn_quotes))
        /\ Len(Successful(fn_quotes)) < 2 => fn_out = <<>>

(***************************************************************************)
(* Properties of what a pool leaves behind: the order of its log and its   *)
(* counters.                                                               *)
(***************************************************************************)
\* C34: for the log of a pool that has stopped, with two successful samples
\* or more, the duration and the average request interval that
\* analyze_quotes computes are not negative.
C34_TimeSeriesNonNegative ==
    (pool_pc = "stopped" /\ Len(Successful(p_log)) >= 2) =>
        /\ analysis_duration(timestamps(p_log)) >= 0
        /\ ~RatLT(calculate_avg_interval(timestamps(p_log)), RatZero)

\* C37: whenever another task can run, and after the pool has stopped,
\* total_requests = successful_requests + failed_requests,
\* successful_requests is the number of successful samples of the log and
\* failed_requests the number of failed ones.
C37_CountersConsistent ==
    /\ p_requests.total_requests
           = p_requests.successful_requests + p_requests.failed_requests
    /\ p_requests.successful_requests = Len(Successful(p_log))
    /\ p_requests.failed_requests = Len(p_log) - Len(Successful(p_log))

(***************************************************************************)
(* The log of a command-line run and its readers.                          *)
(***************************************************************************)
\* C40: a step of a command-line run that changes the log is the step of a
\* worker whose fetch has returned, and it adds one sample after the ones
\* the log held, which stay as they were; the statistics and front-running
\* tasks, the final analysis and the export leave the log as it is, and the
\* final analysis is given the log itself.
C40_Step ==
    /\ quotes' # quotes =>
           /\ \E w \in Workers : wpc[w] \in {"fetch", "cooldown"} /\ wpc'[w] # wpc[w]
           /\ Len(quotes') = Len(quotes) + 1
           /\ Prefix(quotes, quotes')
    /\ (\/ \E t \in PeriodicTasks : tpc'[t] # tpc[t]
        \/ analysisCount' # analysisCount
        \/ exportCalls' # exportCalls) => quotes' = quotes
    /\ analysisCount' # analysisCount => analysisInput' = quotes

C40_LogReadOnly == [][C40_Step]_vars

\* The final analysis and the export have run over a log of two samples
\* or more that the workers appended while the periodic tasks were running.
C40_Witness ==
    /\ rpc = "done"
    /\ analysisCount = 1
    /\ exportCalls = 1
    /\ Len(quotes) >= 2
    /\ analysisInput = quotes
    /\ exportRows # <<>>
    /\ \A t \in PeriodicTasks : tpc[t] \in TaskEnded

====
